---- MODULE Spec2Model ----
(***************************************************************************)
(* A model of kywy-loader.py: the flashing helpers (find_rp2040_serial,    *)
(* touch_1200_baud, find_rp2040_drive and its three platform strategies,   *)
(* download_uf2, install_uf2_procedure) and the GUI handler that calls     *)
(* them (UF2Widget.install_uf2).                                           *)
(*                                                                         *)
(* Time is counted in tenths of a second: time.sleep(0.5) lasts 5.  The    *)
(* program reads the clock only as time.time() - start_time in the loops   *)
(* of the drive searches, and that difference is what the model keeps.     *)
(* The host (volumes, block devices, mount table, serial ports, network,   *)
(* file system) is the environment: it changes between any two steps of    *)
(* the program, and a call that reads it sees what is there at that        *)
(* moment.                                                                 *)
(***************************************************************************)
EXTENDS Integers, Sequences, FiniteSets, TLC

(* ------------------------------ bounds -------------------------------- *)

\* Volumes the host may show: volume 1 carries the bootloader label,
\* volume 2 a label that contains it, every further one an unrelated label.
NumVols == 2
\* Places a volume can be mounted at (drive letters, entries of /Volumes,
\* mount points), in the order the host enumerates them.
NumSlots == 2
\* Changes of the host (attach, mount, detach) during one behaviour.
MaxEnvSteps == 2
\* Serial ports in one enumeration.
MaxPorts == 2
\* Largest timeout handed to a stand-alone call of find_rp2040_drive.
MaxTimeout == 12
\* Lines of /proc/mounts handed to a stand-alone call of mount_or_find_mount.
MaxMounts == 3
\* Calls of save_repo_to_file made one after the other on one file.
MaxSaves == 2
\* Events waiting in the queue of the GUI thread.
MaxEvents == 2
\* Lines of repos.txt when load_repos_from_file is called.
MaxLines == 2

(* ------------------------- program constants -------------------------- *)

PollInterval == 5
ShortTimeout == 20
LongTimeout == 100
InterTouchDelay == 5
SettleDelay == 50
PicoVid == 11914
PicoPid == 192

(* ------------------------------ strings ------------------------------- *)

\* "RPI-RP2" as the sequence of its characters, so that == and `in` of the
\* source are the equality and the substring test they are.
BootLabel == <<"R", "P", "I", "-", "R", "P", "2">>

\* Python's `sub in s` on strings.
Contains(s, sub) ==
  \E i \in 1..(Len(s) - Len(sub) + 1) : SubSeq(s, i, i + Len(sub) - 1) = sub

\* str.lower() on the letters the model's strings use.
LowerChar(c) ==
  CASE c = "K" -> "k" [] c = "O" -> "o" [] c = "I" -> "i" [] c = "N" -> "n"
    [] c = "S" -> "s" [] c = "L" -> "l" [] c = "T" -> "t" [] c = "F" -> "f"
    [] c = "D" -> "d" [] c = "R" -> "r" [] c = "P" -> "p"
    [] OTHER -> c

Lower(s) == [i \in 1..Len(s) |-> LowerChar(s[i])]

HexDigit(d) ==
  CASE d < 10 -> <<"0", "1", "2", "3", "4", "5", "6", "7", "8", "9">>[d + 1]
    [] OTHER -> <<"a", "b", "c", "d", "e", "f">>[d - 9]

RECURSIVE HexDigits(_)
HexDigits(n) == IF n < 16 THEN <<HexDigit(n)>>
                ELSE HexDigits(n \div 16) \o <<HexDigit(n % 16)>>

RECURSIVE ZeroPad(_, _)
ZeroPad(s, w) == IF Len(s) >= w THEN s ELSE ZeroPad(<<"0">> \o s, w)

\* f"{n:04x}"
Hex04(n) == ZeroPad(HexDigits(n), 4)

(* ------------------------------- host --------------------------------- *)

Vols == 1..NumVols
Slots == 1..NumSlots
NoPath == 0      \* None as the result of a drive search
NoVol == 0
NoPort == "None" \* None as the result of the serial search
NotRead == <<>>  \* download_url before download_uf2 has looked at it
NotFetched == <<>> \* no local file: download_uf2 has not returned a path
NoId == -1       \* port.vid / port.pid of a port that is no USB device

\* The volume label (GetVolumeInformationW's volume name, the entry of
\* /Volumes, udev's ID_FS_LABEL).
Label(v) ==
  CASE v = 1 -> BootLabel
    [] v = 2 -> BootLabel \o <<"-", "B", "A", "K">>
    [] OTHER -> <<"D", "A", "T", "A">>

\* os.path.exists(os.path.join(drive, "INFO_UF2.TXT")): the bootloader
\* volume carries the marker file, the other volumes do not.
HasMarker(v) == v = 1

\* The serial ports a host can list.
PortKinds == {
  [device |-> "ttyACM0", vid |-> PicoVid, pid |-> PicoPid,
   manufacturer |-> <<"P", "i">>],
  [device |-> "ttyACM1", vid |-> PicoVid, pid |-> 10,
   manufacturer |-> <<"K", "O", "I", "N", "S", "L", "O", "T">>],
  [device |-> "ttyUSB0", vid |-> 1027, pid |-> 24577,
   manufacturer |-> <<"F", "T", "D", "I">>],
  [device |-> "ttyS0", vid |-> NoId, pid |-> NoId, manufacturer |-> <<>>] }

\* comports(): every list of at most MaxPorts distinct ports.
PortLists ==
  { ps \in UNION { [1..n -> PortKinds] : n \in 0..MaxPorts } :
      \A i, j \in 1..Len(ps) : ps[i] = ps[j] => i = j }

VARIABLES
  system,    \* platform.system()
  vol,       \* per volume: attached to the host? mounted at which slot?
  envSteps,  \* changes the host has made
  monitor,   \* the pyudev monitor: started? and its queue of events
  ports,     \* the local `ports` of find_rp2040_serial
  url,       \* download_url, from the moment download_uf2 reads it
  files,     \* per volume: the names of the files written to it
  pc,        \* where the program is
  elapsed,   \* time.time() - start_time of the running drive search
  timeout,   \* the timeout of the running drive search
  ret,       \* which call of find_rp2040_drive is running
  drive,     \* the local `drive` of install_uf2_procedure
  port,      \* the local `port`
  uf2_file,  \* the local `uf2_file`
  outcome,   \* how install_uf2_procedure ended
  dialog,    \* the message box install_uf2 showed
  touchLog,  \* the touches made: the port and whether the open/close raised
  calls,     \* how often each helper was called
  hist,      \* what the run observed (kept for stating properties); dur,
             \* iters and events describe a drive search called on its own
  proc_mounts,  \* the lines of /proc/mounts
  device_node   \* the argument of a call of mount_or_find_mount on its own

\* /proc/mounts and the device asked for
mountVars == <<proc_mounts, device_node>>

VARIABLES
  event_queue   \* the events posted to the GUI thread and not yet handled

guiVars == <<event_queue>>

VARIABLES
  repo_file,    \* repos.txt: whether it exists, and its lines
  repos,        \* self.repos
  repo_lines,   \* the lines of the file load_repos_from_file has open
  line_no,      \* the line its loop is at
  repo_hist     \* ghost: the file at the call, and the lines looked up
                \* (with the hash the look-up gave), asked about, approved
                \* and loaded

repoVars == <<repo_file, repos, repo_lines, line_no, repo_hist>>

vars == <<system, vol, envSteps, monitor, ports, url, files, pc, elapsed,
          timeout, ret, drive, port, uf2_file, outcome, dialog, touchLog,
          calls, hist, mountVars, guiVars, repoVars>>

Systems == {"Windows", "Darwin", "Linux", "FreeBSD"}

Min(S) == CHOOSE x \in S : \A y \in S : x <= y

\* The volume mounted at a slot, NoVol when there is none.
VolAt(s) == IF \E v \in Vols : vol[v].slot = s
            THEN CHOOSE v \in Vols : vol[v].slot = s
            ELSE NoVol

FreeSlots == { s \in Slots : VolAt(s) = NoVol }

VolStates == [att : BOOLEAN, slot : {NoPath} \cup Slots]

\* The host states: a mounted volume is attached, no two volumes share a
\* slot, and only Linux shows a device that is attached and not mounted.
HostOk(sys, vs) ==
  /\ \A v \in Vols : vs[v].slot # NoPath => vs[v].att
  /\ \A v, w \in Vols : (vs[v].slot # NoPath /\ vs[v].slot = vs[w].slot) => v = w
  /\ sys # "Linux" => \A v \in Vols : vs[v].att => vs[v].slot # NoPath

\* The slots in increasing order.
RECURSIVE Ascending(_)
Ascending(S) ==
  IF S = {} THEN <<>> ELSE <<Min(S)>> \o Ascending(S \ {Min(S)})

\* /proc/mounts of a host: one line `device mount_point ...` per mounted
\* volume (Linux only).
MountsOf(sys, vs) ==
  IF sys # "Linux" THEN <<>>
  ELSE LET occ == Ascending({ s \in Slots : \E v \in Vols : vs[v].slot = s })
       IN  [i \in 1..Len(occ) |->
              [dev |-> CHOOSE v \in Vols : vs[v].slot = occ[i], mp |-> occ[i]]]

\* A line of /proc/mounts with fewer than two fields.
ShortLine == [dev |-> NoVol, mp |-> NoPath]

\* mounts[parts[1]] = parts[0] on a dict, kept as the sequence of its items
\* in insertion order: a key that is there keeps its place and gets the new
\* value.
DictSet(d, key, value) ==
  IF \E i \in 1..Len(d) : d[i].mp = key
  THEN [i \in 1..Len(d) |->
          IF d[i].mp = key THEN [mp |-> key, dev |-> value] ELSE d[i]]
  ELSE Append(d, [mp |-> key, dev |-> value])

\* lines 157-167: the dict mount point -> device read from the lines
RECURSIVE get_mounts(_)
get_mounts(lines) ==
  IF lines = <<>> THEN <<>>
  ELSE LET before == get_mounts(SubSeq(lines, 1, Len(lines) - 1))
           line == lines[Len(lines)]
       IN  IF line = ShortLine THEN before
           ELSE DictSet(before, line.mp, line.dev)

(* --------------------------- the host acts ---------------------------- *)

NoEvents == [on |-> FALSE, q |-> <<>>]

\* A udev event reaches the monitor only once the monitor has been started.
Notify(action, v) ==
  IF monitor.on
  THEN [monitor EXCEPT !.q = Append(@, [action |-> action, dev |-> v])]
  ELSE monitor

BootVisible == vol[1].slot # NoPath

\* The drive searches wait here.
WaitPcs == {"windows_loop", "windows_sleep", "macos_loop", "macos_sleep",
            "linux_loop"}

\* When volume 1 became visible: during the wait of a drive search and before
\* its deadline ("wait1" in the first search of a run, "wait2" in the second),
\* between the first touch and the second search ("trigger"), or at another
\* moment ("other").  "start" says it was there from the beginning.  In a
\* Linux search called on its own, "gap" is the moment between the scan of
\* the attached devices and the start of the monitor.
SeenNow ==
  IF pc \in WaitPcs /\ elapsed < timeout
  THEN (IF ret = "probe2" THEN "wait2" ELSE "wait1")
  ELSE IF pc = "linux_monitor" /\ ret = "caller"
  THEN "gap"
  ELSE IF pc \in {"sleep1", "touch2", "sleep2", "probe_after_reset"}
          \/ (ret = "probe2" /\ pc \in {"find_rp2040_drive", "linux_scan",
                                        "linux_monitor"})
  THEN "trigger"
  ELSE "other"

NotSeen == "no"

\* The host is followed until the call under study has ended.
Running == pc \notin {"raised", "reported", "returned"}

\* A device is plugged in.  Windows and macOS show it as a volume at once;
\* on Linux it is a block device that something else may mount later.
EnvAttach(v) ==
  /\ Running /\ envSteps < MaxEnvSteps /\ ~vol[v].att
  /\ envSteps' = envSteps + 1
  /\ IF system = "Linux"
     THEN /\ vol' = [vol EXCEPT ![v] = [att |-> TRUE, slot |-> NoPath]]
          /\ monitor' = Notify("add", v)
          /\ UNCHANGED hist
     ELSE /\ \E s \in FreeSlots :
               vol' = [vol EXCEPT ![v] = [att |-> TRUE, slot |-> s]]
          /\ hist' = IF v = 1 THEN [hist EXCEPT !.seen = SeenNow] ELSE hist
          /\ UNCHANGED monitor
  /\ proc_mounts' = MountsOf(system, vol')
  /\ UNCHANGED <<system, ports, url, files, pc, elapsed, timeout, ret, drive,
                 port, uf2_file, outcome, dialog, touchLog, calls, device_node,
                 guiVars, repoVars>>

\* Linux: an attached block device gets mounted (by an automounter or by hand).
EnvMount(v) ==
  /\ Running /\ envSteps < MaxEnvSteps
  /\ system = "Linux" /\ vol[v].att /\ vol[v].slot = NoPath
  /\ envSteps' = envSteps + 1
  /\ \E s \in FreeSlots : vol' = [vol EXCEPT ![v].slot = s]
  /\ hist' = IF v = 1 THEN [hist EXCEPT !.seen = SeenNow] ELSE hist
  /\ proc_mounts' = MountsOf(system, vol')
  /\ UNCHANGED <<system, monitor, ports, url, files, pc, elapsed, timeout, ret,
                 drive, port, uf2_file, outcome, dialog, touchLog, calls,
                 device_node, guiVars, repoVars>>

\* A device is unplugged or ejected: its volume is gone from its slot.
EnvDetach(v) ==
  /\ Running /\ envSteps < MaxEnvSteps /\ vol[v].att
  /\ envSteps' = envSteps + 1
  /\ vol' = [vol EXCEPT ![v] = [att |-> FALSE, slot |-> NoPath]]
  /\ monitor' = IF system = "Linux" THEN Notify("remove", v) ELSE monitor
  /\ hist' = IF v = 1 THEN [hist EXCEPT !.seen = NotSeen] ELSE hist
  /\ proc_mounts' = MountsOf(system, vol')
  /\ UNCHANGED <<system, ports, url, files, pc, elapsed, timeout, ret, drive,
                 port, uf2_file, outcome, dialog, touchLog, calls, device_node,
                 guiVars, repoVars>>

Env == \E v \in Vols : EnvAttach(v) \/ EnvMount(v) \/ EnvDetach(v)

(* ------------------------- find_rp2040_drive -------------------------- *)

\* An exception that leaves install_uf2_procedure: its class, its message
\* and the function that raised it.
Raised(type, msg, fn) ==
  [state |-> "raised", type |-> type, msg |-> msg, raisedIn |-> fn]

NoOutcome == [state |-> "running", type |-> "", msg |-> "", raisedIn |-> ""]

Returned == [state |-> "returned", type |-> "", msg |-> "", raisedIn |-> ""]

NoDialog == [kind |-> "", text |-> ""]

\* lines 471-475: install_uf2 shows a message box for the way
\* install_uf2_procedure ended: the success box after its return, the
\* critical box with str(e) for an exception.
QMessageBox(o) ==
  IF o.state = "returned"
  THEN [kind |-> "information", text |-> "UF2 installed successfully!"]
  ELSE [kind |-> "critical", text |-> o.msg]

\* The end of the call: install_uf2_procedure returns to, or an exception
\* unwinds to, install_uf2, which reports it; a drive search that was called
\* on its own leaves the exception with its caller.
Finish(o) ==
  /\ outcome' = o
  /\ IF ret = "caller"
     THEN pc' = "raised" /\ dialog' = dialog
     ELSE pc' = "reported" /\ dialog' = QMessageBox(o)

\* `return v` of a drive search: the caller's `drive` gets v, and start_time
\* ends with the call.  how tells the return statement: "found", "unmounted"
\* (line 155) or "timeout".
Return(v, how) ==
  /\ drive' = v
  /\ elapsed' = 0
  /\ pc' = CASE ret = "probe1" -> "after_probe1"
             [] ret = "probe2" -> "after_probe2"
             [] OTHER -> "returned"
  /\ monitor' = NoEvents
  /\ hist' = [hist EXCEPT !.how = how,
                          !.found = IF v = NoPath THEN NoVol ELSE VolAt(v),
                          !.r1 = IF ret = "probe1" THEN v ELSE @,
                          !.dur = IF ret = "caller" THEN elapsed ELSE @]

\* A pass of a search loop that did not return: the passes of a search that
\* was called on its own are counted, and those that handled a hotplug event.
Pass(event) ==
  IF ret = "caller"
  THEN [hist EXCEPT !.iters = @ + 1, !.events = @ + (IF event THEN 1 ELSE 0)]
  ELSE hist

\* volume_name.value == "RPI-RP2"
WindowsMatch(v) == Label(v) = BootLabel

\* "RPI-RP2" in d
MacosMatch(v) == Contains(Label(v), BootLabel)

\* check_rp2040_block: id_fs_label == 'RPI-RP2'
check_rp2040_block(v) == Label(v) = BootLabel

\* lines 145-155: the first mount point of the dict whose device is the
\* node asked for, None without one
mount_or_find_mount(v) ==
  LET mounts == get_mounts(proc_mounts)
      hits == { i \in 1..Len(mounts) : mounts[i].dev = v }
  IN  IF hits = {} THEN NoPath ELSE mounts[Min(hits)].mp

\* The first drive letter (entry of /Volumes) in enumeration order whose
\* volume is one of `matching`; NoPath when the scan finds none.
FirstSlot(matching) ==
  LET hits == { s \in Slots : VolAt(s) \in matching }
  IN  IF hits = {} THEN NoPath ELSE Min(hits)

\* The volumes the Windows loop takes for the bootloader volume.
WindowsHits == { v \in Vols : WindowsMatch(v) }

\* The entries of /Volumes the macOS loop takes for the bootloader volume.
MacosHits == { v \in Vols : MacosMatch(v) }

\* lines 49-58: the strategy is chosen by the platform
find_rp2040_drive ==
  /\ pc = "find_rp2040_drive"
  /\ IF system = "Windows"
     THEN pc' = "windows_loop" /\ elapsed' = 0 /\ UNCHANGED <<outcome, dialog>>
     ELSE IF system = "Darwin"
     THEN pc' = "macos_loop" /\ elapsed' = 0 /\ UNCHANGED <<outcome, dialog>>
     ELSE IF system = "Linux"
     THEN pc' = "linux_scan" /\ UNCHANGED <<elapsed, outcome, dialog>>
     ELSE /\ Finish(Raised("Exception", "Unsupported OS", "find_rp2040_drive"))
          /\ elapsed' = elapsed
  /\ UNCHANGED <<system, vol, envSteps, monitor, ports, url, files, timeout,
                 ret, drive, port, uf2_file, touchLog, calls, hist, mountVars,
                 guiVars, repoVars>>

\* lines 65-80 and 82: one pass of the while loop, up to `return drive`,
\* `time.sleep` or `return None`
find_rp2040_drive_windows ==
  /\ pc = "windows_loop"
  /\ IF elapsed < timeout
     THEN IF FirstSlot(WindowsHits) # NoPath
          THEN Return(FirstSlot(WindowsHits), "found")
          ELSE /\ pc' = "windows_sleep"
               /\ hist' = Pass(FALSE)
               /\ UNCHANGED <<drive, monitor, elapsed>>
     ELSE Return(NoPath, "timeout")
  /\ UNCHANGED <<system, vol, envSteps, ports, url, files, timeout, ret, port,
                 uf2_file, outcome, dialog, touchLog, calls, mountVars,
                 guiVars, repoVars>>

\* windows_sleep with a sleep of a whole second
windows_sleep_long ==
  /\ pc = "windows_sleep"
  /\ elapsed' = elapsed + 2 * PollInterval
  /\ pc' = "windows_loop"
  /\ UNCHANGED <<system, vol, envSteps, monitor, ports, url, files, timeout,
                 ret, drive, port, uf2_file, outcome, dialog, touchLog, calls,
                 hist, mountVars, guiVars, repoVars>>

\* line 81: time.sleep(0.5)
windows_sleep ==
  /\ pc = "windows_sleep"
  /\ elapsed' = elapsed + PollInterval
  /\ pc' = "windows_loop"
  /\ UNCHANGED <<system, vol, envSteps, monitor, ports, url, files, timeout,
                 ret, drive, port, uf2_file, outcome, dialog, touchLog, calls,
                 hist, mountVars, guiVars, repoVars>>

\* lines 87-91 and 93
find_rp2040_drive_macos ==
  /\ pc = "macos_loop"
  /\ IF elapsed < timeout
     THEN IF FirstSlot(MacosHits) # NoPath
          THEN Return(FirstSlot(MacosHits), "found")
          ELSE /\ pc' = "macos_sleep"
               /\ hist' = Pass(FALSE)
               /\ UNCHANGED <<drive, monitor, elapsed>>
     ELSE Return(NoPath, "timeout")
  /\ UNCHANGED <<system, vol, envSteps, ports, url, files, timeout, ret, port,
                 uf2_file, outcome, dialog, touchLog, calls, mountVars,
                 guiVars, repoVars>>

\* A sleep during which the time measured by the loop does not advance
macos_sleep_stalled ==
  /\ pc = "macos_sleep"
  /\ pc' = "macos_loop"
  /\ UNCHANGED <<system, vol, envSteps, monitor, ports, url, files, elapsed,
                 timeout, ret, drive, port, uf2_file, outcome, dialog,
                 touchLog, calls, hist, mountVars, guiVars, repoVars>>

\* line 92: time.sleep(0.5)
macos_sleep ==
  /\ pc = "macos_sleep"
  /\ elapsed' = elapsed + PollInterval
  /\ pc' = "macos_loop"
  /\ UNCHANGED <<system, vol, envSteps, monitor, ports, url, files, timeout,
                 ret, drive, port, uf2_file, outcome, dialog, touchLog, calls,
                 hist, mountVars, guiVars, repoVars>>

\* The result of a labelled device: its mount point, or None with the
\* "found but not mounted" message.
ReturnMount(v) ==
  Return(mount_or_find_mount(v),
         IF mount_or_find_mount(v) = NoPath THEN "unmounted" ELSE "found")

\* lines 101-109: the block devices attached now, in enumeration order
linux_scan ==
  /\ pc = "linux_scan"
  /\ LET hits == { v \in Vols : vol[v].att /\ check_rp2040_block(v) }
     IN  IF hits # {}
         THEN ReturnMount(Min(hits))
         ELSE pc' = "linux_monitor" /\ UNCHANGED <<drive, monitor, elapsed, hist>>
  /\ UNCHANGED <<system, vol, envSteps, ports, url, files, timeout, ret, port,
                 uf2_file, outcome, dialog, touchLog, calls, mountVars,
                 guiVars, repoVars>>

\* lines 112-116: the monitor sees the events from now on
linux_monitor ==
  /\ pc = "linux_monitor"
  /\ monitor' = [on |-> TRUE, q |-> <<>>]
  /\ elapsed' = 0
  /\ pc' = "linux_loop"
  /\ UNCHANGED <<system, vol, envSteps, ports, url, files, timeout, ret, drive,
                 port, uf2_file, outcome, dialog, touchLog, calls, hist,
                 mountVars, guiVars, repoVars>>

\* find_rp2040_drive_linux that raises at the deadline instead of returning
\* None
find_rp2040_drive_linux_raising ==
  /\ pc = "linux_loop"
  /\ IF elapsed < timeout
     THEN /\ UNCHANGED <<outcome, dialog>>
          /\ IF monitor.q = <<>>
             THEN /\ elapsed' = elapsed + PollInterval
                  /\ hist' = Pass(FALSE)
                  /\ UNCHANGED <<pc, drive, monitor>>
             ELSE IF Head(monitor.q).action = "add"
                     /\ check_rp2040_block(Head(monitor.q).dev)
             THEN ReturnMount(Head(monitor.q).dev)
             ELSE /\ monitor' = [monitor EXCEPT !.q = Tail(@)]
                  /\ hist' = Pass(TRUE)
                  /\ UNCHANGED <<pc, drive, elapsed>>
     ELSE /\ Finish(Raised("TimeoutError", "no RPI-RP2 device",
                           "find_rp2040_drive"))
          /\ UNCHANGED <<drive, elapsed, monitor, hist>>
  /\ UNCHANGED <<system, vol, envSteps, ports, url, files, timeout, ret, port,
                 uf2_file, touchLog, calls, mountVars, guiVars, repoVars>>

\* lines 117-128: one pass of the while loop.  monitor.poll hands out the
\* oldest event at once, and waits 0.5 s when there is none.
find_rp2040_drive_linux ==
  /\ pc = "linux_loop"
  /\ IF elapsed < timeout
     THEN IF monitor.q = <<>>
          THEN /\ elapsed' = elapsed + PollInterval
               /\ hist' = Pass(FALSE)
               /\ UNCHANGED <<pc, drive, monitor>>
          ELSE IF Head(monitor.q).action = "add"
                  /\ check_rp2040_block(Head(monitor.q).dev)
          THEN ReturnMount(Head(monitor.q).dev)
          ELSE /\ monitor' = [monitor EXCEPT !.q = Tail(@)]
               /\ hist' = Pass(TRUE)
               /\ UNCHANGED <<pc, drive, elapsed>>
     ELSE Return(NoPath, "timeout")
  /\ UNCHANGED <<system, vol, envSteps, ports, url, files, timeout, ret, port,
                 uf2_file, outcome, dialog, touchLog, calls, mountVars,
                 guiVars, repoVars>>

DriveSearch ==
  \/ find_rp2040_drive
  \/ find_rp2040_drive_windows
  \/ windows_sleep
  \/ find_rp2040_drive_macos
  \/ macos_sleep
  \/ linux_scan
  \/ linux_monitor
  \/ find_rp2040_drive_linux

(* ------------------------- find_rp2040_serial ------------------------- *)

\* f"{port.vid:04x}" if port.vid else None; <<>> stands for None
IdStr(n) == IF n # NoId /\ n # 0 THEN Hex04(n) ELSE <<>>

\* lines 31-34
PortMatches(p) ==
  \/ p.manufacturer # <<>>
     /\ Contains(Lower(p.manufacturer),
                 <<"k", "o", "i", "n", "s", "l", "o", "t">>)
  \/ IdStr(p.vid) = <<"2", "e", "8", "a">> /\ IdStr(p.pid) = <<"0", "0", "c", "0">>

\* find_rp2040_serial that keeps the last matching port instead of
\* returning at the first
find_rp2040_serial_last(ps) ==
  LET hits == { i \in 1..Len(ps) : PortMatches(ps[i]) }
  IN  IF hits = {} THEN NoPort
      ELSE ps[CHOOSE i \in hits : \A j \in hits : j <= i].device

\* lines 24-37: the device of the first matching port, None without one
find_rp2040_serial(ps) ==
  LET hits == { i \in 1..Len(ps) : PortMatches(ps[i]) }
  IN  IF hits = {} THEN NoPort ELSE ps[Min(hits)].device

(* ------------------------ install_uf2_procedure ----------------------- *)

NoSerialMsg == "No RP2040 serial device found (no RPI-RP2 drive, no serial port)!"
AfterResetMsg == "Timeout: RP2040 mass storage device not found after reset!"

\* A call find_rp2040_drive(timeout=t) from install_uf2_procedure
CallDriveSearch(t, which) ==
  /\ timeout' = t
  /\ ret' = which
  /\ calls' = [calls EXCEPT !.find_rp2040_drive = @ + 1]
  /\ hist' = [hist EXCEPT !.iters = 0, !.events = 0]
  /\ pc' = "find_rp2040_drive"

\* line 472: the click handler calls install_uf2_procedure
install_uf2 ==
  /\ pc = "idle"
  /\ pc' = "install_uf2_procedure"
  /\ UNCHANGED <<system, vol, envSteps, monitor, ports, url, files, elapsed,
                 timeout, ret, drive, port, uf2_file, outcome, dialog,
                 touchLog, calls, hist, mountVars, guiVars, repoVars>>

\* line 234: drive = find_rp2040_drive(timeout=2)
probe_existing ==
  /\ pc = "install_uf2_procedure"
  /\ CallDriveSearch(ShortTimeout, "probe1")
  /\ UNCHANGED <<system, vol, envSteps, monitor, ports, url, files, elapsed,
                 drive, port, uf2_file, outcome, dialog, touchLog, mountVars,
                 guiVars, repoVars>>

\* after_probe1 without the test of `drive`: the reset is always sent
after_probe1_resets ==
  /\ pc = "after_probe1"
  /\ pc' = "find_rp2040_serial"
  /\ UNCHANGED <<system, vol, envSteps, monitor, ports, url, files, elapsed,
                 timeout, ret, drive, port, uf2_file, outcome, dialog,
                 touchLog, calls, hist, mountVars, guiVars, repoVars>>

\* lines 236-239: if drive: ... else: ...
after_probe1 ==
  /\ pc = "after_probe1"
  /\ pc' = IF drive # NoPath THEN "download_uf2" ELSE "find_rp2040_serial"
  /\ UNCHANGED <<system, vol, envSteps, monitor, ports, url, files, elapsed,
                 timeout, ret, drive, port, uf2_file, outcome, dialog,
                 touchLog, calls, hist, mountVars, guiVars, repoVars>>

\* line 25: ports = serial.tools.list_ports.comports()
comports ==
  /\ pc = "find_rp2040_serial"
  /\ \E ps \in PortLists : ports' = ps
  /\ calls' = [calls EXCEPT !.find_rp2040_serial = @ + 1]
  /\ pc' = "serial_loop"
  /\ UNCHANGED <<system, vol, envSteps, monitor, url, files, elapsed, timeout,
                 ret, drive, port, uf2_file, outcome, dialog, touchLog, hist,
                 mountVars, guiVars, repoVars>>

\* locate_serial without `if not port: raise`
locate_serial_unchecked ==
  /\ pc = "serial_loop"
  /\ port' = find_rp2040_serial(ports)
  /\ ports' = <<>>
  /\ pc' = "touch1"
  /\ UNCHANGED <<system, vol, envSteps, monitor, url, files, elapsed, timeout,
                 ret, drive, uf2_file, outcome, dialog, touchLog, calls, hist,
                 mountVars, guiVars, repoVars>>

\* lines 26-37 and 240-242: port = the result of the loop over ports (the
\* list is a local of find_rp2040_serial and ends with it); if not port: raise
locate_serial ==
  /\ pc = "serial_loop"
  /\ port' = find_rp2040_serial(ports)
  /\ ports' = <<>>
  /\ IF find_rp2040_serial(ports) = NoPort
     THEN Finish(Raised("Exception", NoSerialMsg, "install_uf2_procedure:242"))
     ELSE pc' = "touch1" /\ UNCHANGED <<outcome, dialog>>
  /\ UNCHANGED <<system, vol, envSteps, monitor, url, files, elapsed, timeout,
                 ret, drive, uf2_file, touchLog, calls, hist, mountVars,
                 guiVars, repoVars>>

\* touch_1200_baud without its try/except: a failed open or close leaves
\* install_uf2_procedure
touch_1200_baud_uncaught(ok, next) ==
  /\ touchLog' = Append(touchLog, [port |-> port, ok |-> ok])
  /\ IF ok
     THEN pc' = next /\ UNCHANGED <<outcome, dialog>>
     ELSE Finish(Raised("SerialException", "could not open port",
                        "touch_1200_baud"))

\* lines 40-46: open the port at 1200 baud and close it; whatever the
\* open or the close raises is caught and printed.
touch_1200_baud(ok, next) ==
  /\ touchLog' = Append(touchLog, [port |-> port, ok |-> ok])
  /\ pc' = next
  /\ UNCHANGED <<outcome, dialog>>

\* touch that leaves out the second of the two touches
touch_once(at, next) ==
  /\ pc = at
  /\ IF at = "touch2"
     THEN pc' = next /\ UNCHANGED <<touchLog, outcome, dialog>>
     ELSE \E ok \in BOOLEAN : touch_1200_baud(ok, next)
  /\ UNCHANGED <<system, vol, envSteps, monitor, ports, url, files, elapsed,
                 timeout, ret, drive, port, uf2_file, calls, hist, mountVars,
                 guiVars, repoVars>>

\* lines 245 and 247: the two touches
touch(at, next) ==
  /\ pc = at
  /\ \E ok \in BOOLEAN : touch_1200_baud(ok, next)
  /\ UNCHANGED <<system, vol, envSteps, monitor, ports, url, files, elapsed,
                 timeout, ret, drive, port, uf2_file, calls, hist, mountVars,
                 guiVars, repoVars>>

first_touch == touch("touch1", "sleep1")

\* A second touch after which the search begins at once, without time.sleep(5)
second_touch_unsettled == touch("touch2", "probe_after_reset")

second_touch == touch("touch2", "sleep2")

\* lines 246 and 248: time.sleep(d); the host may act before and after it
sleep(at, d, next) ==
  /\ pc = at
  /\ hist' = [hist EXCEPT !.slept = Append(@, d)]
  /\ pc' = next
  /\ UNCHANGED <<system, vol, envSteps, monitor, ports, url, files, elapsed,
                 timeout, ret, drive, port, uf2_file, outcome, dialog,
                 touchLog, calls, mountVars, guiVars, repoVars>>

inter_touch_sleep == sleep("sleep1", InterTouchDelay, "touch2")

settle_sleep == sleep("sleep2", SettleDelay, "probe_after_reset")

\* line 250: drive = find_rp2040_drive(timeout=10)
probe_after_reset ==
  /\ pc = "probe_after_reset"
  /\ CallDriveSearch(LongTimeout, "probe2")
  /\ UNCHANGED <<system, vol, envSteps, monitor, ports, url, files, elapsed,
                 drive, port, uf2_file, outcome, dialog, touchLog, mountVars,
                 guiVars, repoVars>>

\* after_probe2 without `if not drive: raise`
after_probe2_unchecked ==
  /\ pc = "after_probe2"
  /\ pc' = "download_uf2"
  /\ UNCHANGED <<system, vol, envSteps, monitor, ports, url, files, elapsed,
                 timeout, ret, drive, port, uf2_file, outcome, dialog,
                 touchLog, calls, hist, mountVars, guiVars, repoVars>>

\* lines 251-252: if not drive: raise
after_probe2 ==
  /\ pc = "after_probe2"
  /\ IF drive = NoPath
     THEN Finish(Raised("Exception", AfterResetMsg,
                        "install_uf2_procedure:252"))
     ELSE pc' = "download_uf2" /\ UNCHANGED <<outcome, dialog>>
  /\ UNCHANGED <<system, vol, envSteps, monitor, ports, url, files, elapsed,
                 timeout, ret, drive, port, uf2_file, touchLog, calls, hist,
                 mountVars, guiVars, repoVars>>

\* What the host answers to download_uf2: is the local path a file, and
\* what does requests.get do.
Responses == {"200", "404", "ConnectionError"}

\* The answers of the host to one call of download_uf2, and none of them.
HostAnswers == [isfile : BOOLEAN, resp : Responses, stored : BOOLEAN]

NoAnswers == [isfile |-> FALSE, resp |-> "", stored |-> FALSE]

\* str.startswith
StartsWith(s, prefix) ==
  Len(s) >= Len(prefix) /\ SubSeq(s, 1, Len(prefix)) = prefix

FilePrefix == <<"f", "i", "l", "e", ":", "/", "/">>
HttpPrefix == <<"h", "t", "t", "p", ":", "/", "/">>
HttpsPrefix == <<"h", "t", "t", "p", "s", ":", "/", "/">>

\* A path on the host, the address of a release asset, and the asset's name.
LocalUf2 == <<"/", "l", "/", "f", ".", "u", "f", "2">>
RemoteUf2 == <<"h", "/", "f", ".", "u", "f", "2">>
target_filename == <<"f", ".", "u", "f", "2">>

\* line 703: f"file://{local_path}"
FileUrl == FilePrefix \o LocalUf2

HttpUrl == HttpPrefix \o RemoteUf2

\* download_url: a file:// reference or an http(s) address
Urls == {FileUrl, HttpUrl}

\* A local path taken to be the whole reference, prefix included
local_path_whole(u) == u

\* line 214: local_path = url[7:]
local_path(u) == SubSeq(u, 8, Len(u))

\* lines 222-223: os.path.join(tempfile.gettempdir(), target_filename)
tmp_path == <<"/", "t", "m", "p", "/">> \o target_filename

\* line 220, requests.get(url): the answer of the server, or InvalidSchema
\* for an address requests has no connection adapter for.
requests_get(u, resp) ==
  IF StartsWith(u, HttpPrefix) \/ StartsWith(u, HttpsPrefix)
  THEN resp
  ELSE "InvalidSchema"

\* lines 212-229: the path returned, NotFetched when the call raises.
\* isfile is os.path.isfile(local_path), resp what requests.get does, stored
\* whether open(tmp_path, 'wb') and f.write succeed.
download_uf2_path(u, isfile, resp, stored) ==
  IF StartsWith(u, FilePrefix)
  THEN (IF isfile THEN local_path(u) ELSE NotFetched)
  ELSE IF requests_get(u, resp) = "200" /\ stored THEN tmp_path ELSE NotFetched

\* lines 212-229: what the call raises when it returns no path
download_uf2_error(u, isfile, resp, stored) ==
  IF StartsWith(u, FilePrefix)
  THEN Raised("Exception", "Local UF2 not found", "download_uf2")
  ELSE IF requests_get(u, resp) \in {"ConnectionError", "InvalidSchema"}
  THEN Raised(requests_get(u, resp), "requests.get", "download_uf2")
  ELSE IF requests_get(u, resp) = "200"
  THEN Raised("OSError", "open(tmp_path, 'wb')", "download_uf2")
  ELSE Raised("Exception", "Failed to download UF2 file", "download_uf2")

\* Ghost: whether the call made a network request, and whether it wrote
\* the temporary file.
Fetched(u, isfile, resp, stored) ==
  [hist EXCEPT
     !.net = ~StartsWith(u, FilePrefix),
     !.tmp = download_uf2_path(u, isfile, resp, stored) = tmp_path]

\* fetch with the error of download_uf2 swallowed: the copy follows anyway
fetch_swallowing ==
  /\ pc = "download_uf2"
  /\ \E u \in Urls, isfile \in BOOLEAN, resp \in Responses,
       stored \in BOOLEAN :
       /\ url' = u
       /\ hist' = Fetched(u, isfile, resp, stored)
       /\ pc' = "copy"
       /\ UNCHANGED <<outcome, dialog>>
       /\ uf2_file' = download_uf2_path(u, isfile, resp, stored)
  /\ calls' = [calls EXCEPT !.download_uf2 = @ + 1]
  /\ UNCHANGED <<system, vol, envSteps, monitor, ports, files, elapsed,
                 timeout, ret, drive, port, touchLog, mountVars, guiVars,
                 repoVars>>

\* fetch that calls download_uf2 a second time when the first call raised
fetch_retrying ==
  /\ pc = "download_uf2"
  /\ \E u \in Urls, isfile \in BOOLEAN, resp \in Responses,
       stored \in BOOLEAN :
       /\ url' = u
       /\ hist' = Fetched(u, isfile, resp, stored)
       /\ IF download_uf2_path(u, isfile, resp, stored) = ""
          THEN /\ IF calls.download_uf2 = 0
                  THEN pc' = pc /\ UNCHANGED <<outcome, dialog>>
                  ELSE Finish(download_uf2_error(u, isfile, resp, stored))
               /\ uf2_file' = uf2_file
          ELSE /\ pc' = "copy"
               /\ UNCHANGED <<outcome, dialog>>
               /\ uf2_file' = download_uf2_path(u, isfile, resp, stored)
  /\ calls' = [calls EXCEPT !.download_uf2 = @ + 1]
  /\ UNCHANGED <<system, vol, envSteps, monitor, ports, files, elapsed,
                 timeout, ret, drive, port, touchLog, mountVars, guiVars,
                 repoVars>>

\* line 255: uf2_file = download_uf2(download_url, target_filename)
fetch ==
  /\ pc = "download_uf2"
  /\ \E u \in Urls, isfile \in BOOLEAN, resp \in Responses,
       stored \in BOOLEAN :
       /\ url' = u
       /\ hist' = Fetched(u, isfile, resp, stored)
       /\ IF download_uf2_path(u, isfile, resp, stored) = ""
          THEN /\ Finish(download_uf2_error(u, isfile, resp, stored))
               /\ uf2_file' = uf2_file
          ELSE /\ pc' = "copy"
               /\ UNCHANGED <<outcome, dialog>>
               /\ uf2_file' = download_uf2_path(u, isfile, resp, stored)
  /\ calls' = [calls EXCEPT !.download_uf2 = @ + 1]
  /\ UNCHANGED <<system, vol, envSteps, monitor, ports, files, elapsed,
                 timeout, ret, drive, port, touchLog, mountVars, guiVars,
                 repoVars>>

\* lines 258-259: shutil.copy(uf2_file, os.path.join(drive, target_filename)).
\* The copy goes to whatever is mounted at the path `drive` now; it raises
\* when nothing is, or on an I/O error, which may leave a partial file.
copy ==
  /\ pc = "copy"
  /\ LET target == VolAt(drive) IN
       /\ hist' = [hist EXCEPT !.wrote = target]
       /\ \/ /\ target # NoVol
             /\ files' = [files EXCEPT ![target] = "complete"]
             /\ Finish(Returned)
          \/ /\ target # NoVol
             /\ \E left \in {files[target], "partial"} :
                  files' = [files EXCEPT ![target] = left]
             /\ Finish(Raised("OSError", "Input/output error", "shutil.copy"))
          \/ /\ target = NoVol
             /\ files' = files
             /\ Finish(Raised("FileNotFoundError",
                              "No such file or directory", "shutil.copy"))
  /\ calls' = [calls EXCEPT !.copy = @ + 1]
  /\ UNCHANGED <<system, vol, envSteps, monitor, ports, url, elapsed, timeout,
                 ret, drive, port, uf2_file, touchLog, mountVars, guiVars,
                 repoVars>>

Install ==
  \/ install_uf2
  \/ probe_existing
  \/ after_probe1
  \/ comports
  \/ locate_serial
  \/ first_touch
  \/ inter_touch_sleep
  \/ second_touch
  \/ settle_sleep
  \/ probe_after_reset
  \/ after_probe2
  \/ fetch
  \/ copy

(* --------------------------- specifications --------------------------- *)

\* repos.txt does not exist.
NoFile == [exists |-> FALSE, lines |-> <<>>]

NoRepoHist(file) ==
  [start |-> file, looked |-> {}, asked |-> {}, loaded |-> {},
   latest |-> {}, approved |-> {}, saves |-> <<>>]

\* No call of load_repos_from_file is modelled.
NoRepoCall ==
  /\ repo_file = NoFile
  /\ repos = <<>>
  /\ repo_lines = <<>>
  /\ line_no = 0
  /\ repo_hist = NoRepoHist(NoFile)

NoCalls == [find_rp2040_drive |-> 0, find_rp2040_serial |-> 0,
            download_uf2 |-> 0, copy |-> 0]

InitHost ==
  /\ system \in Systems
  /\ vol \in { vs \in [Vols -> VolStates] : HostOk(system, vs) }
  /\ envSteps = 0
  /\ proc_mounts = MountsOf(system, vol)
  /\ device_node = NoVol
  /\ event_queue = <<>>
  /\ NoRepoCall
  /\ monitor = NoEvents
  /\ files = [v \in Vols |-> "none"]
  /\ elapsed = 0
  /\ drive = NoPath
  /\ port = NoPort
  /\ ports = <<>>
  /\ uf2_file = NotFetched
  /\ outcome = NoOutcome
  /\ dialog = NoDialog
  /\ touchLog = <<>>

InitHist ==
  [seen |-> IF vol[1].slot # NoPath THEN "start" ELSE NotSeen,
   how |-> "", found |-> NoVol, r1 |-> -1, slept |-> <<>>, dur |-> 0,
   iters |-> 0, events |-> 0, wrote |-> NoVol, net |-> FALSE,
   tmp |-> FALSE, host |-> NoAnswers]

\* One click on the install button of a widget.
Init ==
  /\ InitHost
  /\ url = NotRead
  /\ pc = "idle"
  /\ timeout = 0
  /\ ret = "probe1"
  /\ calls = NoCalls
  /\ hist = InitHist

Next == Install \/ DriveSearch \/ Env

Spec == Init /\ [][Next]_vars

\* One call find_rp2040_drive(timeout) on its own, for every timeout up to
\* MaxTimeout.
InitFind ==
  /\ InitHost
  /\ url = NotRead
  /\ pc = "find_rp2040_drive"
  /\ timeout \in 0..MaxTimeout
  /\ ret = "caller"
  /\ calls = [NoCalls EXCEPT !.find_rp2040_drive = 1]
  /\ hist = InitHist

NextFind == DriveSearch \/ Env

SpecFind == InitFind /\ [][NextFind]_vars


\* The ports of a stand-alone call of find_rp2040_serial: those of PortKinds
\* and ports that come close to the rule (the right vendor with another
\* product, the right product with another vendor, the vendor name in mixed
\* case inside a longer string, the vendor name cut short).
SerialKinds ==
  PortKinds \cup {
    [device |-> "ttyACM2", vid |-> PicoVid, pid |-> 10,
     manufacturer |-> <<"P", "i">>],
    [device |-> "ttyACM3", vid |-> 1027, pid |-> PicoPid,
     manufacturer |-> <<>>],
    [device |-> "ttyACM4", vid |-> NoId, pid |-> NoId,
     manufacturer |-> <<"a", " ", "K", "o", "i", "n", "S", "l", "o", "t">>],
    [device |-> "ttyACM5", vid |-> 0, pid |-> 0,
     manufacturer |-> <<"K", "o", "i", "n", "s", "l", "o">>] }

\* comports() of such a host: every list of at most MaxPorts distinct ports.
SerialLists ==
  { ps \in UNION { [1..n -> SerialKinds] : n \in 0..MaxPorts } :
      \A i, j \in 1..Len(ps) : ps[i] = ps[j] => i = j }

\* lines 24-37 on their own: the loop over ports and the return
find_rp2040_serial_call ==
  /\ pc = "find_rp2040_serial_call"
  /\ port' = find_rp2040_serial(ports)
  /\ pc' = "returned"
  /\ UNCHANGED <<system, vol, envSteps, monitor, ports, url, files, elapsed,
                 timeout, ret, drive, uf2_file, outcome, dialog, touchLog,
                 calls, hist, mountVars, guiVars, repoVars>>

\* One call find_rp2040_serial() on its own, for every enumeration.
InitSerial ==
  /\ system = "Linux"
  /\ vol = [v \in Vols |-> [att |-> FALSE, slot |-> NoPath]]
  /\ envSteps = 0
  /\ proc_mounts = <<>>
  /\ device_node = NoVol
  /\ event_queue = <<>>
  /\ NoRepoCall
  /\ monitor = NoEvents
  /\ ports \in SerialLists
  /\ url = NotRead
  /\ files = [v \in Vols |-> "none"]
  /\ pc = "find_rp2040_serial_call"
  /\ elapsed = 0
  /\ timeout = 0
  /\ ret = "caller"
  /\ drive = NoPath
  /\ port = NoPort
  /\ uf2_file = NotFetched
  /\ outcome = NoOutcome
  /\ dialog = NoDialog
  /\ touchLog = <<>>
  /\ calls = [NoCalls EXCEPT !.find_rp2040_serial = 1]
  /\ hist = InitHist

NextSerial == find_rp2040_serial_call

SpecSerial == InitSerial /\ [][NextSerial]_vars

\* What the window system posts to the application: a repaint, or the
\* user's request to close the window.
EventKinds == {"paint", "close"}

\* The window system posts an event; it waits in the queue of the GUI thread.
post_event ==
  /\ Len(event_queue) < MaxEvents
  /\ \E e \in EventKinds : event_queue' = Append(event_queue, e)
  /\ UNCHANGED <<system, vol, envSteps, monitor, ports, url, files, pc,
                 elapsed, timeout, ret, drive, port, uf2_file, outcome, dialog,
                 touchLog, calls, hist, mountVars, repoVars>>

\* line 759, app.exec(): the GUI thread takes the next event from the queue
\* when it is in the event loop, which it is while no slot runs.  The slot
\* install_uf2 (connected at line 317) runs from the click to the message box
\* (lines 470-475), and the message box runs an event loop of its own.
handle_event ==
  /\ pc \in {"idle", "reported"}
  /\ event_queue # <<>>
  /\ event_queue' = Tail(event_queue)
  /\ UNCHANGED <<system, vol, envSteps, monitor, ports, url, files, pc,
                 elapsed, timeout, ret, drive, port, uf2_file, outcome, dialog,
                 touchLog, calls, hist, mountVars, repoVars>>

Gui == post_event \/ handle_event

\* A run that has begun goes on: every call it makes to the host (a sleep, a
\* directory listing, a poll of the monitor, the download, the copy) returns.
Proceed == pc # "idle" /\ (Install \/ DriveSearch)

Fairness == WF_vars(Proceed)

\* A click on the install button of a host to which no volume is attached
\* yet; the volumes come and go during the run.
InitFair == Init /\ \A v \in Vols : ~vol[v].att

SpecFair == InitFair /\ [][Next]_vars /\ Fairness

\* One click on the install button while the window system keeps posting
\* events; the host stays as it is during the run.
NextGui == Install \/ DriveSearch \/ Gui

SpecGui == Init /\ [][NextGui]_vars

(* ------------------------- download_uf2 on its own -------------------- *)

\* The references a caller may hand over: the two of a run, an https
\* address, a reference with the scheme in capitals, and a bare path.
DownloadUrls ==
  Urls \cup {HttpsPrefix \o RemoteUf2,
             <<"F", "I", "L", "E", ":", "/", "/">> \o LocalUf2,
             LocalUf2}

\* lines 212-229: one call download_uf2(url, target_filename)
download_uf2_call ==
  /\ pc = "download_uf2_call"
  /\ LET h == hist.host IN
       /\ uf2_file' = download_uf2_path(url, h.isfile, h.resp, h.stored)
       /\ outcome' =
            IF download_uf2_path(url, h.isfile, h.resp, h.stored) = NotFetched
            THEN download_uf2_error(url, h.isfile, h.resp, h.stored)
            ELSE Returned
       /\ hist' = Fetched(url, h.isfile, h.resp, h.stored)
  /\ calls' = [calls EXCEPT !.download_uf2 = @ + 1]
  /\ pc' = "returned"
  /\ UNCHANGED <<system, vol, envSteps, monitor, ports, url, files, elapsed,
                 timeout, ret, drive, port, dialog, touchLog, mountVars,
                 guiVars, repoVars>>

\* One call of download_uf2, for every reference and every answer of the
\* host.
InitDownload ==
  /\ url \in DownloadUrls
  /\ pc = "download_uf2_call"
  /\ system = "Linux"
  /\ vol = [v \in Vols |-> [att |-> FALSE, slot |-> NoPath]]
  /\ \E h \in HostAnswers : hist = [InitHist EXCEPT !.host = h]
  /\ envSteps = 0
  /\ proc_mounts = <<>>
  /\ device_node = NoVol
  /\ event_queue = <<>>
  /\ NoRepoCall
  /\ monitor = NoEvents
  /\ ports = <<>>
  /\ files = [v \in Vols |-> "none"]
  /\ elapsed = 0
  /\ timeout = 0
  /\ ret = "caller"
  /\ drive = NoPath
  /\ port = NoPort
  /\ uf2_file = NotFetched
  /\ outcome = NoOutcome
  /\ dialog = NoDialog
  /\ touchLog = <<>>
  /\ calls = NoCalls

NextDownload == download_uf2_call

SpecDownload == InitDownload /\ [][NextDownload]_vars

(* --------------------------- the repository file ---------------------- *)

WhiteSpace == {" ", "\n"}

RECURSIVE LStrip(_)
LStrip(s) ==
  IF s # <<>> /\ Head(s) \in WhiteSpace THEN LStrip(Tail(s)) ELSE s

RECURSIVE RStrip(_)
RStrip(s) ==
  IF s # <<>> /\ s[Len(s)] \in WhiteSpace
  THEN RStrip(SubSeq(s, 1, Len(s) - 1))
  ELSE s

\* str.strip()
Strip(s) == RStrip(LStrip(s))

\* str.split(",")
RECURSIVE Split(_)
Split(s) ==
  LET commas == { i \in 1..Len(s) : s[i] = "," }
  IN  IF commas = {}
      THEN <<s>>
      ELSE <<SubSeq(s, 1, Min(commas) - 1)>>
             \o Split(SubSeq(s, Min(commas) + 1, Len(s)))

\* [x.strip() for x in line.strip().split(",")]
Parts(line) ==
  LET p == Split(Strip(line)) IN [i \in 1..Len(p) |-> Strip(p[i])]

\* f"{owner},{repo},{branch},{commit_hash}\n"
FormatLine(owner, repo, branch, commit_hash) ==
  owner \o <<",">> \o repo \o <<",">> \o branch \o <<",">> \o commit_hash
    \o <<"\n">>

KoinslotINC == <<"K", "o", "i", "n", "s", "l", "o", "t", "-", "I", "N", "C">>
Kywy == <<"k", "y", "w", "y">>
KywyRust == <<"k", "y", "w", "y", "-", "r", "u", "s", "t">>
Main == <<"m", "a", "i", "n">>
Official == <<"o", "f", "f", "i", "c", "i", "a", "l">>

\* line 609
default_repos == << <<KoinslotINC, Kywy, Main>>, <<KoinslotINC, KywyRust, Main>> >>

\* lines 611-614: what is written to a missing or empty file
DefaultLines ==
  [i \in 1..Len(default_repos) |->
     FormatLine(default_repos[i][1], default_repos[i][2], default_repos[i][3],
                Official)]

\* A repository a user added, and two commit hashes.
UserRepo == << <<"u">>, <<"r">>, <<"d", "e", "v">> >>
HashA == <<"a", "1">>
HashB == <<"b", "2">>
NoHash == <<>>

\* f.writelines(lines): the strings one after the other, nothing in between
RECURSIVE writelines(_)
writelines(lines) ==
  IF lines = <<>> THEN <<>> ELSE Head(lines) \o writelines(Tail(lines))

\* f.readlines(): the text cut after every "\n"; a last line without one is
\* a line too
RECURSIVE readlines(_)
readlines(text) ==
  LET ends == { i \in 1..Len(text) : text[i] = "\n" }
  IN  IF text = <<>>
      THEN <<>>
      ELSE IF ends = {}
      THEN <<text>>
      ELSE <<SubSeq(text, 1, Min(ends))>>
             \o readlines(SubSeq(text, Min(ends) + 1, Len(text)))

\* lines 591-605: the file after save_repo_to_file(owner, repo, branch,
\* commit_hash): every line of the key is replaced, or one line is appended,
\* and the lines are written back.
save_repo_to_file(file, owner, repo, branch, commit_hash) ==
  LET lines == IF file.exists THEN file.lines ELSE <<>>
      Hit(i) == /\ Len(Parts(lines[i])) = 4
                /\ SubSeq(Parts(lines[i]), 1, 3) = <<owner, repo, branch>>
      new == FormatLine(owner, repo, branch, commit_hash)
      found == \E i \in 1..Len(lines) : Hit(i)
      replaced == [i \in 1..Len(lines) |-> IF Hit(i) THEN new ELSE lines[i]]
  IN  [exists |-> TRUE,
       lines |-> readlines(writelines(IF found
                                      THEN replaced
                                      ELSE Append(replaced, new)))]

\* lines 607-615: the defaults are written to a missing or empty file, then
\* the file is opened for reading.
load_repos_from_file ==
  /\ pc = "load_repos_from_file"
  /\ LET written == IF ~repo_file.exists \/ repo_file.lines = <<>>
                    THEN [exists |-> TRUE, lines |-> DefaultLines]
                    ELSE repo_file
     IN  /\ repo_file' = written
         /\ repo_lines' = written.lines
  /\ line_no' = 1
  /\ pc' = "load_loop"
  /\ UNCHANGED <<repos, repo_hist>>
  /\ UNCHANGED <<system, vol, envSteps, monitor, ports, url, files, elapsed,
                 timeout, ret, drive, port, uf2_file, outcome, dialog,
                 touchLog, calls, hist, mountVars, guiVars>>

\* What get_latest_commit_hash returns: None, or the sha of the branch.
LatestHashes == {NoHash, HashA, HashB}

\* An entry with the placeholder that is validated like any other
SkipValidation_never(commit_hash) == FALSE

\* line 622: if commit_hash == "official"
SkipValidation(commit_hash) == commit_hash = Official

\* A changed hash that is taken for unchanged: the entry is loaded unasked
HashChanged_never(latest_hash, commit_hash) == FALSE

\* line 628: if latest_hash and latest_hash != commit_hash
HashChanged(latest_hash, commit_hash) ==
  latest_hash # NoHash /\ latest_hash # commit_hash

\* self.repos.append((owner, repo, branch)) for the line the loop is at
LoadEntry(parts) ==
  /\ repos' = Append(repos, SubSeq(parts, 1, 3))
  /\ repo_hist' = [repo_hist EXCEPT !.loaded = @ \cup {line_no}]

\* lines 616-637: one pass of `for line in f`, or the end of the loop
load_line ==
  /\ pc = "load_loop"
  /\ IF line_no > Len(repo_lines)
     THEN /\ pc' = "returned"
          /\ UNCHANGED repoVars
     ELSE LET parts == Parts(repo_lines[line_no])
          IN  /\ line_no' = line_no + 1
              /\ UNCHANGED <<pc, repo_lines>>
              /\ IF Len(parts) # 4
                 THEN UNCHANGED <<repo_file, repos, repo_hist>>
                 ELSE IF SkipValidation(parts[4])
                 THEN LoadEntry(parts) /\ UNCHANGED repo_file
                 ELSE \E latest_hash \in LatestHashes :
                        IF HashChanged(latest_hash, parts[4])
                        THEN \E update \in BOOLEAN :
                               /\ repos' = IF update
                                           THEN Append(repos, SubSeq(parts, 1, 3))
                                           ELSE repos
                               /\ repo_file' =
                                    IF update
                                    THEN save_repo_to_file(repo_file, parts[1],
                                           parts[2], parts[3], latest_hash)
                                    ELSE repo_file
                               /\ repo_hist' =
                                    [repo_hist EXCEPT
                                       !.looked = @ \cup {line_no},
                                       !.latest = @ \cup
                                                    {<<line_no, latest_hash>>},
                                       !.asked = @ \cup {line_no},
                                       !.approved = IF update
                                                    THEN @ \cup {line_no}
                                                    ELSE @,
                                       !.loaded = IF update
                                                  THEN @ \cup {line_no}
                                                  ELSE @]
                        ELSE /\ repos' = Append(repos, SubSeq(parts, 1, 3))
                             /\ repo_hist' =
                                  [repo_hist EXCEPT
                                     !.looked = @ \cup {line_no},
                                     !.latest = @ \cup
                                                  {<<line_no, latest_hash>>},
                                     !.loaded = @ \cup {line_no}]
                             /\ UNCHANGED repo_file
  /\ UNCHANGED <<system, vol, envSteps, monitor, ports, url, files, elapsed,
                 timeout, ret, drive, port, uf2_file, outcome, dialog,
                 touchLog, calls, hist, mountVars, guiVars>>

\* The lines repos.txt can hold: an entry of a default or a user repository
\* with the placeholder or a hash, the placeholder with blanks around it, a
\* line of three fields, an empty line.
RepoKeys == {default_repos[1], default_repos[2], UserRepo}

RepoLineKinds ==
  { FormatLine(k[1], k[2], k[3], h) :
      k \in RepoKeys, h \in {Official, HashA, HashB} }
    \cup { UserRepo[1] \o <<",">> \o UserRepo[2] \o <<",">> \o UserRepo[3]
             \o <<",", " ">> \o Official \o <<" ", "\n">>,
           UserRepo[1] \o <<",">> \o UserRepo[2] \o <<",">> \o Official
             \o <<"\n">>,
           <<"\n">> }

RepoFiles ==
  {NoFile} \cup
  { [exists |-> TRUE, lines |-> l] :
      l \in UNION { [1..n -> RepoLineKinds] : n \in 0..MaxLines } }

\* lines 480-488: UF2InstallerApp.__init__ calls load_repos_from_file with
\* an empty self.repos, for every repos.txt of at most MaxLines lines.
InitRepos ==
  /\ repo_file \in RepoFiles
  /\ repos = <<>>
  /\ repo_lines = <<>>
  /\ line_no = 0
  /\ repo_hist = NoRepoHist(repo_file)
  /\ system = "Linux"
  /\ vol = [v \in Vols |-> [att |-> FALSE, slot |-> NoPath]]
  /\ envSteps = 0
  /\ proc_mounts = <<>>
  /\ device_node = NoVol
  /\ event_queue = <<>>
  /\ monitor = NoEvents
  /\ ports = <<>>
  /\ url = NotRead
  /\ files = [v \in Vols |-> "none"]
  /\ pc = "load_repos_from_file"
  /\ elapsed = 0
  /\ timeout = 0
  /\ ret = "caller"
  /\ drive = NoPath
  /\ port = NoPort
  /\ uf2_file = NotFetched
  /\ outcome = NoOutcome
  /\ dialog = NoDialog
  /\ touchLog = <<>>
  /\ calls = NoCalls
  /\ hist = InitHist

NextRepos == load_repos_from_file \/ load_line

SpecRepos == InitRepos /\ [][NextRepos]_vars

(* ---------------------- save_repo_to_file on its own ------------------ *)

\* The lines of the files saved to: an entry of each repository, a line of
\* three fields, an empty line.
SaveLineKinds ==
  { FormatLine(k[1], k[2], k[3], HashA) : k \in RepoKeys }
    \cup { UserRepo[1] \o <<",">> \o UserRepo[2] \o <<",">> \o Official
             \o <<"\n">>,
           <<"\n">> }

\* A line is an entry of the key.
EntryOf(line, key) == Len(Parts(line)) = 4 /\ SubSeq(Parts(line), 1, 3) = key

\* At most one line per (owner, repo, branch).
OneLinePerKey(lines) ==
  \A key \in RepoKeys :
    Cardinality({ i \in 1..Len(lines) : EntryOf(lines[i], key) }) <= 1

\* The text of a file whose last line, if it is an entry, may lack its
\* "\n" (a file edited by hand).
Unterminated(lines) ==
  [i \in 1..Len(lines) |->
     IF i = Len(lines) THEN SubSeq(lines[i], 1, Len(lines[i]) - 1)
     ELSE lines[i]]

SaveFiles ==
  LET texts == { l \in UNION { [1..n -> SaveLineKinds] : n \in 0..MaxLines } :
                   OneLinePerKey(l) }
      open == { Unterminated(l) : l \in { t \in texts : t # <<>>
                                           /\ t[Len(t)] # <<"\n">> } }
  IN  {NoFile} \cup { [exists |-> TRUE, lines |-> l] : l \in texts \cup open }

\* lines 540 and 631: one call save_repo_to_file(owner, repo, branch,
\* commit_hash) with a hash a look-up gave
save_repo_to_file_call ==
  /\ pc = "save_repo_to_file"
  /\ Len(repo_hist.saves) < MaxSaves
  /\ \E key \in RepoKeys, commit_hash \in {HashA, HashB} :
       /\ repo_file' = save_repo_to_file(repo_file, key[1], key[2], key[3],
                                         commit_hash)
       /\ repo_hist' = [repo_hist EXCEPT
                          !.saves = Append(@, [key |-> key,
                                               hash |-> commit_hash])]
  /\ UNCHANGED <<repos, repo_lines, line_no>>
  /\ UNCHANGED <<system, vol, envSteps, monitor, ports, url, files, pc,
                 elapsed, timeout, ret, drive, port, uf2_file, outcome, dialog,
                 touchLog, calls, hist, mountVars, guiVars>>

\* Calls of save_repo_to_file on every file of at most MaxLines lines with
\* at most one line per key.
InitSave ==
  /\ repo_file \in SaveFiles
  /\ repos = <<>>
  /\ repo_lines = <<>>
  /\ line_no = 0
  /\ repo_hist = NoRepoHist(repo_file)
  /\ system = "Linux"
  /\ vol = [v \in Vols |-> [att |-> FALSE, slot |-> NoPath]]
  /\ envSteps = 0
  /\ proc_mounts = <<>>
  /\ device_node = NoVol
  /\ event_queue = <<>>
  /\ monitor = NoEvents
  /\ ports = <<>>
  /\ url = NotRead
  /\ files = [v \in Vols |-> "none"]
  /\ pc = "save_repo_to_file"
  /\ elapsed = 0
  /\ timeout = 0
  /\ ret = "caller"
  /\ drive = NoPath
  /\ port = NoPort
  /\ uf2_file = NotFetched
  /\ outcome = NoOutcome
  /\ dialog = NoDialog
  /\ touchLog = <<>>
  /\ calls = NoCalls
  /\ hist = InitHist

NextSave == save_repo_to_file_call

SpecSave == InitSave /\ [][NextSave]_vars

\* The lines /proc/mounts can hold and the files of at most MaxMounts lines.
MountLines == [dev : Vols, mp : Slots] \cup {ShortLine}

MountTables == UNION { [1..n -> MountLines] : n \in 0..MaxMounts }

\* lines 145-155 on their own: the call and its return
mount_or_find_mount_call ==
  /\ pc = "mount_or_find_mount"
  /\ drive' = mount_or_find_mount(device_node)
  /\ pc' = "returned"
  /\ UNCHANGED <<system, vol, envSteps, monitor, ports, url, files, elapsed,
                 timeout, ret, port, uf2_file, outcome, dialog, touchLog,
                 calls, hist, mountVars, guiVars, repoVars>>

\* One call mount_or_find_mount(device) on its own, for every /proc/mounts
\* and every device node.
InitMounts ==
  /\ system = "Linux"
  /\ vol = [v \in Vols |-> [att |-> TRUE, slot |-> NoPath]]
  /\ envSteps = 0
  /\ proc_mounts \in MountTables
  /\ device_node \in Vols
  /\ event_queue = <<>>
  /\ NoRepoCall
  /\ monitor = NoEvents
  /\ ports = <<>>
  /\ url = NotRead
  /\ files = [v \in Vols |-> "none"]
  /\ pc = "mount_or_find_mount"
  /\ elapsed = 0
  /\ timeout = 0
  /\ ret = "caller"
  /\ drive = NoPath
  /\ port = NoPort
  /\ uf2_file = NotFetched
  /\ outcome = NoOutcome
  /\ dialog = NoDialog
  /\ touchLog = <<>>
  /\ calls = NoCalls
  /\ hist = InitHist

NextMounts == mount_or_find_mount_call

SpecMounts == InitMounts /\ [][NextMounts]_vars

(* ------------------------------ properties ---------------------------- *)

\* The run of install_uf2_procedure has ended (returned or raised).
Ended == pc \in {"raised", "reported"}

\* A drive search is under way.
SearchPcs == WaitPcs \cup {"find_rp2040_drive", "linux_scan", "linux_monitor"}

Untouched == \A v \in Vols : files[v] = "none"

\* C1: when the first (short-timeout) drive search returns a volume, the run
\* never calls find_rp2040_serial or touch_1200_baud and never searches for
\* the drive a second time: after the probe it is fetching, copying or over.
C1_ShortCircuit ==
  hist.r1 >= 1 =>
    /\ calls.find_rp2040_serial = 0
    /\ touchLog = <<>>
    /\ calls.find_rp2040_drive = 1
    /\ pc \in {"after_probe1", "download_uf2", "copy", "raised",
               "reported"}

C1_Witness ==
  /\ hist.r1 >= 1
  /\ pc = "reported"
  /\ outcome.state = "returned"

\* C2: the copy to the volume is attempted only after download_uf2 has
\* returned a path; when download_uf2 raises, for a local or a remote
\* reference, the run ends with that exception, no copy is attempted and no
\* volume has been written to.
C2_FetchBeforeWrite ==
  /\ (pc = "copy" \/ calls.copy > 0) =>
       (calls.download_uf2 = 1 /\ uf2_file \in {LocalUf2, tmp_path})
  /\ (calls.download_uf2 = 1 /\ uf2_file = NotFetched) =>
       /\ pc \in {"raised", "reported"}
       /\ outcome.state = "raised"
       /\ outcome.raisedIn = "download_uf2"
       /\ calls.copy = 0
       /\ hist.wrote = NoVol
       /\ Untouched

C2_Witness ==
  /\ pc = "reported"
  /\ url = HttpUrl
  /\ outcome.type = "ConnectionError"
  /\ drive # NoPath
  /\ calls.copy = 0


\* C3: once a search has returned a volume no further search is made, and
\* the copy goes to that very volume; when that volume is no longer at its
\* path at the time of the copy, the run ends with the error of the copy and
\* nothing has been written to any volume.
C3_OneTarget ==
  /\ (hist.found # NoVol /\ pc \notin SearchPcs) =>
       calls.find_rp2040_drive = (IF ret = "probe1" THEN 1 ELSE 2)
  /\ (calls.copy = 1 /\ hist.wrote # hist.found) =>
       /\ outcome.state = "raised"
       /\ outcome.raisedIn = "shutil.copy"
       /\ Untouched

\* The part of C3 that the code keeps: no search after a volume was found,
\* and the copy is made to the path that search returned.
C3_NoSecondDiscovery ==
  (hist.found # NoVol /\ pc \notin SearchPcs) =>
    /\ calls.find_rp2040_drive = (IF ret = "probe1" THEN 1 ELSE 2)
    /\ drive # NoPath

\* The failures install_uf2_procedure words itself.
TaggedMessages ==
  {NoSerialMsg, AfterResetMsg, "Local UF2 not found",
   "Failed to download UF2 file", "Unsupported OS"}

\* C4: every failure of a run reaches the caller as one of the failures the
\* program words itself, never as the raw error of the host, the network or
\* the file system.
C4_TaggedOutcomes ==
  outcome.state = "raised" =>
    /\ outcome.type = "Exception"
    /\ outcome.msg \in TaggedMessages

\* C5: an error of the open or close in touch_1200_baud never leaves the
\* function: whichever of the two touches fail, the run goes on to the
\* second drive search, and how it ends is decided by that search, the fetch
\* and the copy alone.
C5_TouchErrorsSwallowed ==
  /\ outcome.raisedIn # "touch_1200_baud"
  /\ (Ended /\ port # NoPort) =>
       /\ Len(touchLog) = 2
       /\ calls.find_rp2040_drive = 2
       /\ outcome.raisedIn = (IF drive = NoPath THEN "install_uf2_procedure:252"
                              ELSE IF uf2_file = NotFetched THEN "download_uf2"
                              ELSE IF hist.wrote # NoVol
                                      /\ files[hist.wrote] = "complete"
                              THEN ""
                              ELSE "shutil.copy")

C5_Witness ==
  /\ pc = "reported"
  /\ Len(touchLog) = 2
  /\ ~touchLog[1].ok
  /\ ~touchLog[2].ok
  /\ outcome.state = "returned"

\* C7: when the first search returns nothing and find_rp2040_serial returns
\* no port, the run ends with the no-serial-device failure, and no touch, no
\* second search, no fetch and no copy is made.
C7_NoDeviceFound ==
  (hist.r1 = NoPath /\ calls.find_rp2040_serial = 1 /\ pc # "serial_loop"
     /\ port = NoPort) =>
    /\ pc \in {"raised", "reported"}
    /\ outcome = Raised("Exception", NoSerialMsg, "install_uf2_procedure:242")
    /\ touchLog = <<>>
    /\ calls.find_rp2040_drive = 1
    /\ calls.download_uf2 = 0
    /\ calls.copy = 0
    /\ Untouched

C7_Witness ==
  /\ pc = "reported"
  /\ hist.r1 = NoPath
  /\ port = NoPort
  /\ dialog = [kind |-> "critical", text |-> NoSerialMsg]

\* C8: when a port was found and touched and the second (long-timeout) search
\* returns nothing, the run ends with the not-found-after-reset failure, and
\* no fetch and no copy is made.
C8_NotFoundAfterReset ==
  (ret = "probe2" /\ drive = NoPath /\ pc \notin SearchPcs
     /\ pc # "after_probe2") =>
    /\ pc \in {"raised", "reported"}
    /\ Len(touchLog) = 2
    /\ outcome = Raised("Exception", AfterResetMsg, "install_uf2_procedure:252")
    /\ calls.download_uf2 = 0
    /\ calls.copy = 0
    /\ Untouched

C8_Witness ==
  /\ pc = "reported"
  /\ Len(touchLog) = 2
  /\ drive = NoPath
  /\ hist.how = "timeout"
  /\ dialog = [kind |-> "critical", text |-> AfterResetMsg]


\* The copy of the run wrote the whole file.
CopyDone == hist.wrote # NoVol /\ files[hist.wrote] = "complete"

\* The touches made were made on the port find_rp2040_serial returned.
TouchesOnPort == \A i \in 1..Len(touchLog) : touchLog[i].port = port

\* C6 as stated: first search without a volume, a matching port, and volume 1
\* visible from some moment after the first touch and before the deadline of
\* the second search: the run ends in success, with exactly two touches on
\* the port found.
C6_SuccessAfterTrigger ==
  (Ended /\ hist.r1 = NoPath /\ port # NoPort
     /\ hist.seen \in {"trigger", "wait2"}) =>
    /\ outcome.state = "returned"
    /\ Len(touchLog) = 2
    /\ TouchesOnPort

\* C6 as amended: when the first search returns nothing and a matching port
\* is found, the run makes exactly two touches, both on that port, in its one
\* triggering phase, and then its second search; it ends in success exactly
\* when that search returns a volume, the fetch returns a file and the copy
\* completes.
C6_TwoTouchesThenSuccess ==
  (Ended /\ hist.r1 = NoPath /\ port # NoPort) =>
    /\ Len(touchLog) = 2
    /\ TouchesOnPort
    /\ calls.find_rp2040_serial = 1
    /\ calls.find_rp2040_drive = 2
    /\ outcome.state = "returned" <=>
         (drive # NoPath /\ uf2_file # NotFetched /\ CopyDone)

C6_Witness ==
  /\ pc = "reported"
  /\ hist.r1 = NoPath
  /\ port = "ttyACM0"
  /\ hist.seen = "wait2"
  /\ hist.slept = <<InterTouchDelay, SettleDelay>>
  /\ Len(touchLog) = 2
  /\ outcome.state = "returned"

C9_AtReturn ==
  pc = "returned" =>
    /\ (drive = NoPath /\ hist.how # "unmounted") =>
         (hist.how = "timeout" /\ hist.dur >= timeout)
    /\ hist.how = "unmounted" => (system = "Linux" /\ drive = NoPath)
    /\ drive # NoPath =>
         (hist.dur < timeout \/ (system = "Linux" /\ hist.dur = 0))
    /\ hist.dur = (hist.iters - hist.events) * PollInterval
    /\ hist.events > 0 => system = "Linux"

\* The step part of the amended C9: a poll of the Windows or macOS loop made
\* before the deadline while volume 1 is visible returns a volume.
C9_PollFinds ==
  (pc \in {"windows_loop", "macos_loop"} /\ pc' # pc
     /\ elapsed < timeout /\ BootVisible) =>
    (pc' = "returned" /\ drive' # NoPath /\ hist'.dur = elapsed)

C10_LabelledVolumeReturned ==
  (pc = "returned" /\ hist.seen = "start" /\ timeout >= PollInterval) =>
    /\ drive = vol[1].slot
    /\ hist.dur <= PollInterval

\* C10 on the strategies that compare the label for equality.
C10_ExceptMacos ==
  system # "Darwin" => C10_LabelledVolumeReturned


\* C11: a drive search returns a volume only if its label equals the
\* bootloader label, or, when no visible volume has that label, a volume with
\* the marker file at its root; a volume whose label merely contains the
\* bootloader label and that has no marker file is never returned.
C11_LabelOrMarker ==
  (pc = "returned" /\ drive # NoPath) =>
    /\ \/ Label(hist.found) = BootLabel
       \/ /\ ~\E v \in Vols : vol[v].slot # NoPath /\ Label(v) = BootLabel
          /\ HasMarker(hist.found)
    /\ ~(/\ Label(hist.found) # BootLabel
         /\ Contains(Label(hist.found), BootLabel)
         /\ ~HasMarker(hist.found))

\* C11 on the strategies that compare the label for equality.
C11_ExceptMacos ==
  system # "Darwin" => C11_LabelOrMarker


\* The vendor name, each letter in its two cases.
VendorLetters ==
  << {"k", "K"}, {"o", "O"}, {"i", "I"}, {"n", "N"}, {"s", "S"}, {"l", "L"},
     {"o", "O"}, {"t", "T"} >>

\* The rule of C12 on a port: vendor 0x2E8A with product 0x00C0, or a
\* manufacturer string that holds the vendor name in any mix of cases.
VendorRule(p) ==
  \/ p.vid = PicoVid /\ p.pid = PicoPid
  \/ \E i \in 1..(Len(p.manufacturer) - Len(VendorLetters) + 1) :
       \A j \in 1..Len(VendorLetters) :
         p.manufacturer[i + j - 1] \in VendorLetters[j]

\* C12: for every enumeration, find_rp2040_serial returns a device exactly
\* when some port meets the rule; the device is that of the first such port
\* in enumeration order; without one the result is None, and no exception.
C12_FirstMatchingPort ==
  (pc = "returned" /\ calls.find_rp2040_serial = 1) =>
    LET hits == { i \in 1..Len(ports) : VendorRule(ports[i]) } IN
      /\ port # NoPort <=> hits # {}
      /\ hits # {} => port = ports[Min(hits)].device
      /\ outcome = NoOutcome

C12_Witness ==
  /\ pc = "returned"
  /\ Len(ports) = 2
  /\ ports[1].device = "ttyACM4"
  /\ ports[2].device = "ttyACM0"
  /\ port = "ttyACM4"


\* The state part of C13: how often each phase has run, and what a run that
\* ended with an exception had not begun.
C13_AtMostOnce ==
  /\ calls.find_rp2040_drive <= 2
  /\ calls.find_rp2040_drive = 1 => (ret = "probe1" /\ timeout = ShortTimeout)
  /\ calls.find_rp2040_drive = 2 => (ret = "probe2" /\ timeout = LongTimeout)
  /\ calls.find_rp2040_serial <= 1
  /\ calls.download_uf2 <= 1
  /\ calls.copy <= 1
  /\ Len(touchLog) <= 2
  /\ Ended => Len(touchLog) \in {0, 2}
  /\ outcome.state = "raised" =>
       /\ pc = "reported"
       /\ outcome.raisedIn = "find_rp2040_drive" =>
            calls.find_rp2040_serial + Len(touchLog) + calls.download_uf2 = 0
       /\ outcome.raisedIn = "install_uf2_procedure:242" =>
            (calls.find_rp2040_drive = 1
               /\ Len(touchLog) + calls.download_uf2 = 0)
       /\ outcome.raisedIn = "install_uf2_procedure:252" =>
            calls.download_uf2 = 0
       /\ outcome.raisedIn # "shutil.copy" => (calls.copy = 0 /\ Untouched)

\* The step part of C13: nothing runs after an exception.
C13_HaltsAtFailure == outcome.state = "raised" => vars' = vars

\* C13: no phase of a run is retried: at most two drive searches (the first
\* with the short, the second with the long timeout), at most one serial
\* search, one download and one copy, no touch or exactly two; the first
\* exception other than one inside a touch ends the run at once.
C13_NoRetry == []C13_AtMostOnce /\ [][C13_HaltsAtFailure]_vars

C13_Witness ==
  /\ pc = "reported"
  /\ outcome.state = "raised"
  /\ outcome.raisedIn = "shutil.copy"
  /\ calls = [find_rp2040_drive |-> 2, find_rp2040_serial |-> 1,
              download_uf2 |-> 1, copy |-> 1]
  /\ Len(touchLog) = 2
  /\ ~touchLog[1].ok


Supported == {"Windows", "Darwin", "Linux"}

\* C14: a drive search that finds no volume within its timeout returns None
\* and raises nothing: what then ends the run is raised by
\* install_uf2_procedure.  A drive search raises only on a platform it has no
\* strategy for, and that exception ends the run: nothing else is called.
C14_NotFoundIsNoError ==
  /\ (pc \in {"after_probe1", "after_probe2"} /\ drive = NoPath) =>
       (outcome = NoOutcome /\ hist.how \in {"timeout", "unmounted"})
  /\ system \in Supported => outcome.raisedIn # "find_rp2040_drive"
  /\ outcome.raisedIn = "find_rp2040_drive" =>
       /\ system \notin Supported
       /\ pc = "reported"
       /\ dialog = [kind |-> "critical", text |-> outcome.msg]
       /\ calls = [NoCalls EXCEPT !.find_rp2040_drive = 1]
       /\ touchLog = <<>>
       /\ Untouched
  /\ (system \notin Supported /\ calls.find_rp2040_drive = 1
        /\ pc # "find_rp2040_drive") =>
       outcome.raisedIn = "find_rp2040_drive"

C14_Witness ==
  /\ pc = "reported"
  /\ system = "Linux"
  /\ ret = "probe2"
  /\ hist.how = "timeout"
  /\ outcome.raisedIn = "install_uf2_procedure:252"


\* The lines of /proc/mounts that name the device asked for.
EntriesOf(node) ==
  { i \in 1..Len(proc_mounts) :
      proc_mounts[i] # ShortLine /\ proc_mounts[i].dev = node }

\* C15: mount_or_find_mount returns a mount point exactly when the mount
\* table has an entry whose device is the node asked for, and then the mount
\* point of such an entry; otherwise it returns None.
C15_MountPointIffEntry ==
  (pc = "returned" /\ device_node # NoVol) =>
    /\ drive # NoPath <=> EntriesOf(device_node) # {}
    /\ drive # NoPath =>
         \E i \in EntriesOf(device_node) : proc_mounts[i].mp = drive

\* An entry that no later line with the same mount point follows.
LastAtItsMountPoint(i) ==
  \A j \in (i + 1)..Len(proc_mounts) : proc_mounts[j].mp # proc_mounts[i].mp

\* What the code keeps of C15: the entries that count are those that are the
\* last of their mount point, and the call leaves the mount table and the
\* devices as they are.
C15_LastEntryPerMountPoint ==
  /\ [](  (pc = "returned" /\ device_node # NoVol) =>
          LET last == { i \in EntriesOf(device_node) : LastAtItsMountPoint(i) }
          IN  /\ drive # NoPath <=> last # {}
              /\ drive # NoPath => \E i \in last : proc_mounts[i].mp = drive)
  /\ [][proc_mounts' = proc_mounts /\ vol' = vol]_vars


\* C16: on Linux a device with the bootloader label that is not mounted
\* gives a result of the drive search other than the None of a search that
\* found no device within its timeout, and a run whose second search ended
\* that way does not end with the failure of a run whose second search timed
\* out.
C16_UnmountedIsDistinct ==
  /\ (pc \in {"after_probe1", "after_probe2"} /\ hist.how = "unmounted") =>
       drive # NoPath
  /\ (Ended /\ ret = "probe2" /\ hist.how = "unmounted") =>
       outcome # Raised("Exception", AfterResetMsg, "install_uf2_procedure:252")

\* The second half of C16 alone: the terminal outcome of the run.
C16_DistinctTerminalOutcome ==
  (Ended /\ ret = "probe2" /\ hist.how = "unmounted") =>
    outcome # Raised("Exception", AfterResetMsg, "install_uf2_procedure:252")


\* install_uf2_procedure is running.
InProcedure == pc \notin {"idle", "raised", "reported", "returned"}

\* C17: the flash operation does not run on the thread of the front end:
\* while install_uf2_procedure is in any of its phases, the event loop of the
\* GUI can take the next event from its queue.
C17_EventLoopResponsive ==
  (InProcedure /\ event_queue # <<>>) => ENABLED handle_event


\* The run has ended exactly when it has an outcome, a returned procedure or
\* one exception.
C18_OutcomeIffEnded ==
  /\ (pc = "reported") <=> (outcome # NoOutcome)
  /\ outcome # NoOutcome => outcome.state \in {"returned", "raised"}
  /\ pc \notin {"raised", "returned"}

\* A wait of a drive search never goes past its deadline.
C18_LoopsBounded == pc \in SearchPcs => elapsed <= timeout

\* Nothing is entered after the outcome: the position and the outcome stay.
C18_NothingAfterOutcome ==
  outcome # NoOutcome => (pc' = pc /\ outcome' = outcome)

\* C18: every run of install_uf2_procedure whose host calls all return ends
\* in exactly one outcome, success or one failure: a run that has begun
\* reaches its end, every wait of a drive search stays within its deadline,
\* the outcome is set when the run ends and nothing changes after it.
C18_Terminates ==
  /\ (pc = "install_uf2_procedure") ~> (pc = "reported")
  /\ [](C18_OutcomeIffEnded /\ C18_LoopsBounded)
  /\ [][C18_NothingAfterOutcome]_vars

\* A run that waited to the long deadline on Linux while hotplug events
\* arrived, and ended.
C18_Witness ==
  /\ pc = "reported"
  /\ system = "Linux"
  /\ envSteps = MaxEnvSteps
  /\ calls.find_rp2040_drive = 2
  /\ outcome.state = "raised"


\* The entry of a line of the open file: its four fields, if it has four.
IsEntry(i) == Len(Parts(repo_lines[i])) = 4

\* Lines of the open file the loop has passed.
Passed == 1..(line_no - 1)

\* C19: when repos.txt is missing or empty, load_repos_from_file writes the
\* two default repositories, Koinslot-INC/kywy and Koinslot-INC/kywy-rust on
\* main, with the placeholder official, and loads both into self.repos; and
\* in every file an entry whose saved hash is official is loaded without a
\* look-up of the latest commit hash and without a question to the user.
C19_DefaultsAndOfficial ==
  /\ (pc \in {"load_loop", "returned"}
        /\ (~repo_hist.start.exists \/ repo_hist.start.lines = <<>>))
       => /\ repo_file.exists
          /\ repo_file.lines = DefaultLines
          /\ pc = "returned" => repos = default_repos
  /\ \A i \in Passed :
       (IsEntry(i) /\ Parts(repo_lines[i])[4] = Official) =>
         /\ i \in repo_hist.loaded
         /\ i \notin repo_hist.looked
         /\ i \notin repo_hist.asked
         /\ \E j \in 1..Len(repos) : repos[j] = SubSeq(Parts(repo_lines[i]), 1, 3)

\* A missing file was filled with the defaults and both were loaded.
C19_Witness ==
  /\ pc = "returned"
  /\ ~repo_hist.start.exists
  /\ repos = default_repos
  /\ repo_hist.loaded = {1, 2}


\* The state of the install run, by the statement install_uf2_procedure is
\* at: lines 234-236, 240-242, 245-248, 250-252, 255 and 258.
Phase ==
  CASE pc = "idle" -> "Idle"
    [] pc \in {"install_uf2_procedure", "after_probe1"}
         \/ (pc \in SearchPcs /\ ret = "probe1") -> "ProbingExistingVolume"
    [] pc \in {"find_rp2040_serial", "serial_loop"} -> "LocatingSerial"
    [] pc \in {"touch1", "sleep1", "touch2", "sleep2"} -> "Triggering"
    [] pc \in {"probe_after_reset", "after_probe2"}
         \/ (pc \in SearchPcs /\ ret = "probe2") -> "AwaitingVolume"
    [] pc = "download_uf2" -> "FetchingImage"
    [] pc = "copy" -> "Writing"
    [] OTHER -> "Done"

\* The user has asked the application to stop: the request to close the
\* window waits in the event queue.
CancelRequested == \E i \in 1..Len(event_queue) : event_queue[i] = "close"

\* C20: once the user has asked for the run to stop, the run enters no
\* further phase: from a state with the request pending, a step of the run
\* stays in the phase in progress or ends the run.
C20_NoPhaseAfterCancel ==
  [][(CancelRequested /\ InProcedure) => Phase' \in {Phase, "Done"}]_vars


\* The Linux search, called with a timeout of one polling interval or more,
\* ended while the labelled device, mounted since the moment `when`, was
\* still there.
LinuxEndedWith(when) ==
  /\ system = "Linux"
  /\ timeout >= PollInterval
  /\ pc = "returned"
  /\ BootVisible
  /\ hist.seen \in when

\* C21: the Linux strategy never misses a mounted device with the bootloader
\* label: mounted before the call, between the scan of the attached devices
\* and the start of the monitor, or during the wait before the deadline, its
\* mount point is what find_rp2040_drive_linux returns.
C21_NeverMissed ==
  LinuxEndedWith({"start", "gap", "wait1"}) => drive = vol[1].slot

\* The part of C21 the scan of the attached devices keeps.
C21_PresentBeforeCall == LinuxEndedWith({"start"}) => drive = vol[1].slot

\* The two other parts of C21, each on its own.
C21_MountedInGap == LinuxEndedWith({"gap"}) => drive = vol[1].slot

C21_MountedDuringWait == LinuxEndedWith({"wait1"}) => drive = vol[1].slot


\* What has happened of the triggering phase when the run is at `at`: the
\* touches made, all on the port found, and the sleeps slept.
TriggeredSoFar(at, touches, sleeps) ==
  pc = at =>
    /\ Len(touchLog) = touches
    /\ hist.slept = sleeps
    /\ calls.find_rp2040_drive = 1

\* C22: the triggering phase runs in this order: first touch, inter-touch
\* delay, second touch on the same port without another enumeration of the
\* serial ports, settle delay, and only then the search with the long
\* timeout, which therefore never begins before both touches and both
\* delays are over.
C22_TriggerOrder ==
  /\ TriggeredSoFar("touch1", 0, <<>>)
  /\ TriggeredSoFar("sleep1", 1, <<>>)
  /\ TriggeredSoFar("touch2", 1, <<InterTouchDelay>>)
  /\ TriggeredSoFar("sleep2", 2, <<InterTouchDelay>>)
  /\ TriggeredSoFar("probe_after_reset", 2, <<InterTouchDelay, SettleDelay>>)
  /\ calls.find_rp2040_drive = 2 =>
       /\ Len(touchLog) = 2
       /\ hist.slept = <<InterTouchDelay, SettleDelay>>
       /\ timeout = LongTimeout
  /\ touchLog # <<>> => (TouchesOnPort /\ port # NoPort)
  /\ calls.find_rp2040_serial <= 1

\* The first poll of the search with the long timeout.
C22_Witness ==
  /\ pc \in WaitPcs
  /\ ret = "probe2"
  /\ elapsed = 0
  /\ Len(touchLog) = 2
  /\ touchLog[1].port = touchLog[2].port
  /\ hist.slept = <<InterTouchDelay, SettleDelay>>


\* References that are a file:// URL (line 703 builds them from a path), and
\* references to a remote address.
FileRefs == {FilePrefix \o LocalUf2}

RemoteRefs == {HttpPrefix \o RemoteUf2, HttpsPrefix \o RemoteUf2}

\* The call of download_uf2 has returned a path.
Fetching == pc = "returned" /\ calls.download_uf2 = 1

\* What C23 says of the value returned and of the volume: a local reference
\* gives back its own path without a request and without a copy, a remote
\* one the temporary file with the bytes of the response; otherwise the call
\* raises; no volume is written to.
C23_ResultAndEffects ==
  Fetching =>
    /\ (url \in FileRefs /\ uf2_file # NotFetched) =>
         (uf2_file = LocalUf2 /\ ~hist.net /\ ~hist.tmp)
    /\ (url \in RemoteRefs /\ uf2_file # NotFetched) =>
         (uf2_file = tmp_path /\ hist.net /\ hist.tmp)
    /\ url \in FileRefs => ~hist.net
    /\ (uf2_file = NotFetched) <=> (outcome.state = "raised")
    /\ uf2_file = NotFetched => ~hist.tmp
    /\ Untouched /\ hist.wrote = NoVol

\* C23: download_uf2 succeeds exactly when the reference is a file:// URL of
\* an existing local file, or a remote URL answered with status 200; a local
\* reference gives back its own path without a network request and without
\* a copy, a remote one a temporary file with the bytes of the response; in
\* every other case the call raises, and nothing is written to a volume.
C23_SucceedsIff ==
  /\ C23_ResultAndEffects
  /\ Fetching =>
       ((uf2_file # NotFetched) <=>
          \/ (url \in FileRefs /\ hist.host.isfile)
          \/ (url \in RemoteRefs /\ hist.host.resp = "200"))

\* C23 amended: a remote reference succeeds exactly when the answer has
\* status 200 and the temporary file could be opened and written.
C23_Amended ==
  /\ C23_ResultAndEffects
  /\ Fetching =>
       ((uf2_file # NotFetched) <=>
          \/ (url \in FileRefs /\ hist.host.isfile)
          \/ (url \in RemoteRefs /\ hist.host.resp = "200"
                /\ hist.host.stored))

\* A remote reference answered with 200 gave back the temporary file.
C23_Witness ==
  /\ Fetching
  /\ url \in RemoteRefs
  /\ hist.host.resp = "200"
  /\ hist.host.stored
  /\ uf2_file = tmp_path


\* The run has ended in success.
Success == Ended /\ outcome.state = "returned"

\* What a successful run has written: the complete image on the volume
\* `target`, and nothing on any other volume.
WroteOnly(target) ==
  /\ target # NoVol
  /\ hist.wrote = target
  /\ files[target] = "complete"
  /\ \A v \in Vols \ {target} : files[v] = "none"

\* An error of the copy ends the run as a failure raised by shutil.copy,
\* whatever it left of the file, and never as success.
CopyErrorFails ==
  (Ended /\ calls.copy = 1
     /\ (hist.wrote = NoVol \/ files[hist.wrote] # "complete")) =>
    /\ outcome.state = "raised"
    /\ outcome.raisedIn = "shutil.copy"

\* C24: a run ends in success only after the fetched image has been copied
\* to the volume the search discovered, under the target file name; that
\* file is the only one the run writes; an I/O error of the copy ends the
\* run as a write failure and never in success.
C24_WritesDiscoveredVolume ==
  /\ Success =>
       /\ calls.download_uf2 = 1 /\ calls.copy = 1
       /\ uf2_file # NotFetched
       /\ WroteOnly(hist.found)
  /\ CopyErrorFails
  /\ calls.copy = 0 => Untouched

\* The part of C24 the code keeps: success only after the complete copy to
\* the volume that is at the path `drive` when shutil.copy runs.
C24_WritesPathOfDrive ==
  /\ Success =>
       /\ calls.download_uf2 = 1 /\ calls.copy = 1
       /\ uf2_file # NotFetched
       /\ WroteOnly(hist.wrote)
  /\ CopyErrorFails
  /\ calls.copy = 0 => Untouched

\* The run unmounts and ejects nothing: the volumes and the mount table
\* change by steps of the host only.
C24_NoUnmount ==
  [][(vol' # vol \/ proc_mounts' # proc_mounts) => envSteps' = envSteps + 1]_vars


\* Line i of the open file is an entry with a commit hash, not the
\* placeholder.
NonOfficial(i) == IsEntry(i) /\ Parts(repo_lines[i])[4] # Official

SavedHash(i) == Parts(repo_lines[i])[4]

KeyOf(line) == SubSeq(Parts(line), 1, 3)

\* What the look-up for line i gave: a hash, or NoHash when it failed.
LatestOf(i) == CHOOSE h \in LatestHashes : <<i, h>> \in repo_hist.latest

\* The look-up for line i gave a hash other than the saved one.
Differs(i) ==
  /\ i \in repo_hist.looked
  /\ LatestOf(i) \notin {NoHash, SavedHash(i)}

\* C25 as stated: an entry whose latest hash differs from the saved one is
\* loaded only if the user approves the update; and no entry with a hash is
\* loaded unless its saved hash has been compared with the latest hash.
C25_LoadedOnlyChecked ==
  \A i \in Passed :
    NonOfficial(i) =>
      /\ Differs(i) =>
           (i \in repo_hist.asked
              /\ (i \in repo_hist.loaded <=> i \in repo_hist.approved))
      /\ i \in repo_hist.loaded =>
           (i \in repo_hist.looked /\ LatestOf(i) # NoHash)

\* The state part of the amended C25: the latest hash is looked up for
\* every entry with a hash; when the look-up gives a different hash the
\* user is asked and the entry is loaded exactly when the user approves;
\* when it gives the saved hash, or nothing, the entry is loaded unasked.
C25_EntriesLookedUp ==
  \A i \in Passed :
    NonOfficial(i) =>
      /\ i \in repo_hist.looked
      /\ Differs(i) =>
           (i \in repo_hist.asked
              /\ (i \in repo_hist.loaded <=> i \in repo_hist.approved))
      /\ ~Differs(i) =>
           (i \in repo_hist.loaded /\ i \notin repo_hist.asked)

\* The step part: the pass of the loop over an entry with a hash.  An
\* approved update puts the latest hash on every line of the entry's key and
\* leaves the other lines and their order alone; otherwise the file is left
\* as it is; self.repos gets the entry at its end, or stays.
C25_UpdateStep ==
  (pc = "load_loop" /\ line_no <= Len(repo_lines) /\ NonOfficial(line_no)) =>
    LET i == line_no
        key == KeyOf(repo_lines[i])
        old == repo_file.lines
        new == repo_file'.lines
    IN  /\ line_no' = i + 1
        /\ IF i \in repo_hist'.approved
           THEN /\ Len(new) = Len(old)
                /\ \A j \in 1..Len(old) :
                     IF Len(Parts(old[j])) = 4 /\ KeyOf(old[j]) = key
                     THEN /\ KeyOf(new[j]) = key
                          /\ <<i, Parts(new[j])[4]>> \in repo_hist'.latest
                          /\ Parts(new[j])[4] # SavedHash(i)
                     ELSE new[j] = old[j]
           ELSE repo_file' = repo_file
        /\ repos' = IF i \in repo_hist'.loaded THEN Append(repos, key) ELSE repos

\* C25 amended.
C25_Amended == []C25_EntriesLookedUp /\ [][C25_UpdateStep]_vars

\* Two entries with a changed hash: the update of the first was approved and
\* written, that of the second declined.
C25_Witness ==
  /\ pc = "returned"
  /\ repo_hist.asked = {1, 2}
  /\ repo_hist.approved = {1}
  /\ repo_hist.loaded = {1}
  /\ Len(repos) = 1
  /\ repo_file.lines[1] # repo_hist.start.lines[1]
  /\ repo_file.lines[2] = repo_hist.start.lines[2]


\* The keys saved so far, and the hash of the most recent save of a key.
SavedKeys == { repo_hist.saves[i].key : i \in 1..Len(repo_hist.saves) }

LastSaved(key) ==
  LET at == { i \in 1..Len(repo_hist.saves) : repo_hist.saves[i].key = key }
  IN  repo_hist.saves[CHOOSE i \in at : \A j \in at : j <= i].hash

\* The lines that are no entry of a key saved, in their order.
RECURSIVE OtherLines(_)
OtherLines(lines) ==
  IF lines = <<>>
  THEN <<>>
  ELSE (IF \E key \in SavedKeys : EntryOf(Head(lines), key)
        THEN <<>>
        ELSE <<Head(lines)>>) \o OtherLines(Tail(lines))

\* After the saves made so far: one line for every key saved, with the hash
\* of its most recent save, and the other lines as they were, in their
\* order.
SavedOnce ==
  /\ repo_hist.saves # <<>> => repo_file.exists
  /\ \A key \in SavedKeys :
       /\ Cardinality({ i \in 1..Len(repo_file.lines) :
                          EntryOf(repo_file.lines[i], key) }) = 1
       /\ \E i \in 1..Len(repo_file.lines) :
            repo_file.lines[i] = FormatLine(key[1], key[2], key[3],
                                            LastSaved(key))
  /\ OtherLines(repo_file.lines) = OtherLines(repo_hist.start.lines)

\* C26: after any sequence of calls of save_repo_to_file on a file that
\* began with at most one line per (owner, repo, branch), the file has
\* exactly one line for every key saved, with the hash of the most recent
\* save of the key, and the lines of the other keys are unchanged and in
\* their order.
C26_OneLinePerSavedKey == pc = "save_repo_to_file" => SavedOnce

\* The text of the file at the first call ends with "\n", or is empty.
StartTerminated ==
  LET l == repo_hist.start.lines
  IN  l = <<>> \/ l[Len(l)][Len(l[Len(l)])] = "\n"

\* C26 on the files whose last line is terminated, as every file is that
\* the program has written itself.
C26_TerminatedFiles ==
  (pc = "save_repo_to_file" /\ StartTerminated) => SavedOnce

====
